---- MODULE Spec2Model ----
(***************************************************************************)
(* ThreadManager (cpp/src/helpers/worker_thread.cpp): the process-wide     *)
(* pool of WorkerThread<EGLThreadState>, and the reference-counted         *)
(* EGLWorker handle that sits on top of it.                                *)
(*                                                                         *)
(* Every caller thread has a program counter; one step of the model is one *)
(* statement of the method the thread is in.  A method's first step takes  *)
(* its lock_guard, so a caller that finds mMutex owned waits before it;    *)
(* the step that returns gives the mutex back.                             *)
(***************************************************************************)
EXTENDS Integers, Sequences, FiniteSets, TLC

\* ---- bounds of the model ------------------------------------------------
NumThreads == 2     \* caller threads
MaxWorkers == 2     \* at most this many `new WorkerThread`
MaxMisuse  == 1     \* at most this many releases of a Worker that is not lent out
MaxTasks   == 3     \* at most this many tasks submitted
MaxRefs    == 2     \* at most this many references to one EGLWorker

Threads == 1 .. NumThreads
Workers == 1 .. MaxWorkers

\* nullptr (mInstance, a WorkerThread*), and a mutex nobody owns
NullPtr  == 0
NoThread == 0

VARIABLES
    mInstance,    \* ThreadManager::mInstance: NullPtr or the id of the instance
    nInstances,   \* how many times `new ThreadManager()` ran
    mMutex,       \* ThreadManager::mMutex: its owner, or NoThread
    mThreadPool,  \* ThreadManager::mThreadPool, a stack: the top is the last element
    nWorkers,     \* how many times `new WorkerThread` ran; Workers are numbered in that order
    affinity,     \* affinity[w]: the Affinity a Worker was constructed with
    isWorking,    \* isWorking[w]: WorkerThread::mIsWorking
    pc,           \* pc[t]: the statement thread t is at
    ctx,          \* ctx[t]: who made the call t is in: the thread itself, Current() or ~EGLWorker
    thread,       \* thread[t]: the local/parameter `thread` of acquireThread/releaseThread
    inst,         \* inst[t]: the ThreadManager* thread t got from getInstance
    held,         \* held[t][w]: how many acquired, unreleased pointers to w thread t has
    hookRuns,     \* hookRuns[t]: how often the hook of t's call in progress has run
    nMisuse,      \* how many releases of a not-lent Worker were issued
    curMutex,     \* the lock of EGLWorker::Current
    egl,          \* the current EGLWorker: live, the Worker it wraps, its reference count,
                  \* and history: how often its destructor ran (releases) and whether
                  \* Current() handed it to a second caller (shared)
    refsHeld,     \* refsHeld[t]: how many rcp<EGLWorker> thread t owns
    relOrder,     \* history: the released Workers not taken since, oldest release first
    maxLent,      \* history: the most Workers that were lent out at one time
    workQueue,    \* workQueue[w]: the Task Queue of Worker w, oldest task first
    running,      \* running[w]: the tasks the loop of Worker w is executing
    done,         \* history: done[w], the tasks the loop of Worker w executed, in order
    pushedTo,     \* history: pushedTo[k], the Worker task k was submitted to
    failed        \* history: the tasks that failed while they executed

vars == << mInstance, nInstances, mMutex, mThreadPool, nWorkers, affinity, isWorking,
           pc, ctx, thread, inst, held, hookRuns, nMisuse, curMutex, egl, refsHeld,
           relOrder, maxLent, workQueue, running, done, pushedTo, failed >>

mgrVars    == << mInstance, nInstances >>
poolVars   == << mThreadPool, nWorkers, affinity, isWorking, relOrder >>
eglVars    == << curMutex, egl, refsHeld >>
taskVars   == << workQueue, running, done, pushedTo, failed >>

\* ---- helpers ------------------------------------------------------------

\* std::stack<WorkerThread*>: top(), pop(), push()
Bottom(s)   == s[1]                      \* a queue's front() in place of top()
Top(s)      == s[Len(s)]
PopKeeps(s) == s                         \* top() with the pop() forgotten
Pop(s)      == SubSeq(s, 1, Len(s) - 1)
Push(s, w)  == Append(s, w)

\* history: relOrder without the latest release of w
RemoveLast(s, w) ==
    LET idx == {i \in 1 .. Len(s) : s[i] = w}
    IN  IF idx = {} THEN s
        ELSE LET m == CHOOSE i \in idx : \A j \in idx : j <= i
             IN  SubSeq(s, 1, m - 1) \o SubSeq(s, m + 1, Len(s))

\* a lock_guard on a recursive mutex: the owner may lock again
LockRecursive(t) == mMutex \in {NoThread, t} /\ mMutex' = t
\* a scope that ends and leaves the mutex locked
UnlockForgotten(t) == mMutex' = mMutex
\* a method that forgets its lock_guard
LockNoWait(t) == mMutex' = t
\* std::lock_guard<std::mutex> lock(mMutex): blocks until the mutex is free
Lock(t)   == mMutex = NoThread /\ mMutex' = t
\* the lock_guard's destructor at the end of the scope
Unlock(t) == mMutex' = NoThread

\* the argument of `new WorkerThread<EGLThreadState>(name, Affinity::Odd)`
NewAffinity == "Odd"

\* WorkerThread::setIsWorking(isIt, onTransition): sets the flag and runs the
\* callback, when one is given, once
SetIsWorking(t, w, isIt, hasCallback) ==
    /\ isWorking' = [isWorking EXCEPT ![w] = isIt]
    /\ hookRuns' = [hookRuns EXCEPT ![t] = IF hasCallback THEN @ + 1 ELSE @]

\* WorkerThread::releaseQueue(onRelease): runs the release callback once
ReleaseQueue(t, w) ==
    hookRuns' = [hookRuns EXCEPT ![t] = @ + 1]

\* A Worker is in flight when acquireThread has taken it and not yet returned it
InAcquire(w) ==
    \E t \in Threads :
        /\ pc[t] \in {"acq_set", "acq_hook", "hook_gi", "hook_acq", "hook_rel", "acq_ret", "cur_new"}
        /\ thread[t] = w

\* Lent out: a caller holds it, the live EGLWorker wraps it, ~EGLWorker is giving
\* it back, or acquireThread is about to return it
LentOut(w) ==
    \/ \E t \in Threads : held[t][w] > 0
    \/ egl.live /\ egl.worker = w
    \/ \E t \in Threads : ctx[t] = "dtor" /\ pc[t] # "idle" /\ thread[t] = w
    \/ InAcquire(w)

InPool(w) == \E i \in 1 .. Len(mThreadPool) : mThreadPool[i] = w

\* history: how many Workers are lent out
LentCount == Cardinality({w \in Workers : LentOut(w)})
HighWater(n) == IF n > maxLent THEN n ELSE maxLent

\* ---- initial state: nothing constructed ---------------------------------
Init ==
    /\ mInstance = NullPtr
    /\ nInstances = 0
    /\ mMutex = NoThread
    /\ mThreadPool = << >>
    /\ nWorkers = 0
    /\ affinity = [w \in Workers |-> "None"]
    /\ isWorking = [w \in Workers |-> FALSE]
    /\ pc = [t \in Threads |-> "idle"]
    /\ ctx = [t \in Threads |-> "direct"]
    /\ thread = [t \in Threads |-> NullPtr]
    /\ inst = [t \in Threads |-> NullPtr]
    /\ held = [t \in Threads |-> [w \in Workers |-> 0]]
    /\ hookRuns = [t \in Threads |-> 0]
    /\ nMisuse = 0
    /\ curMutex = NoThread
    /\ egl = [live |-> FALSE, worker |-> NullPtr, refs |-> 0, releases |-> 0, shared |-> FALSE]
    /\ refsHeld = [t \in Threads |-> 0]
    /\ relOrder = << >>
    /\ maxLent = 0
    /\ workQueue = [w \in Workers |-> << >>]
    /\ running = [w \in Workers |-> {}]
    /\ done = [w \in Workers |-> << >>]
    /\ pushedTo = << >>
    /\ failed = {}

\* ---- ThreadManager::getInstance -----------------------------------------

\* Every method is entered from a call site: "idle" for a thread calling the
\* ThreadManager itself, or the statement of EGLWorker that makes the call.

\* std::lock_guard<std::mutex> lock(mMutex): the caller proceeds once it owns the mutex
GetInstanceLock(t, site) ==
    /\ pc[t] = site
    /\ Lock(t)
    /\ pc' = [pc EXCEPT ![t] = "gi_check"]
    /\ UNCHANGED << mgrVars, poolVars, ctx, thread, inst, held, hookRuns, nMisuse, eglVars, maxLent, taskVars >>

\* if (mInstance == nullptr)
GetInstanceCheck(t) ==
    /\ pc[t] = "gi_check"
    /\ pc' = [pc EXCEPT ![t] = IF mInstance = NullPtr THEN "gi_new" ELSE "gi_ret"]
    /\ UNCHANGED << mgrVars, mMutex, poolVars, ctx, thread, inst, held, hookRuns, nMisuse, eglVars, maxLent, taskVars >>

GetInstanceNew(t) ==
    /\ pc[t] = "gi_new"
    /\ nInstances' = nInstances + 1
    /\ mInstance' = nInstances + 1
    /\ pc' = [pc EXCEPT ![t] = "gi_ret"]
    /\ UNCHANGED << mMutex, poolVars, ctx, thread, inst, held, hookRuns, nMisuse, eglVars, maxLent, taskVars >>

\* return mInstance; the caller is the thread itself, or Current() / ~EGLWorker
\* going on to ->acquireThread / ->releaseThread
GetInstanceReturn(t) ==
    /\ pc[t] = "gi_ret"
    /\ Unlock(t)
    /\ inst' = [inst EXCEPT ![t] = IF ctx[t] = "direct" THEN mInstance ELSE @]
    /\ pc' = [pc EXCEPT ![t] = CASE ctx[t] = "direct" -> "idle"
                                 [] ctx[t] = "cur"    -> "cur_acq"
                                 [] ctx[t] = "dtor"   -> "dtor_rel"]
    /\ UNCHANGED << mgrVars, poolVars, ctx, thread, held, hookRuns, nMisuse, eglVars, maxLent, taskVars >>

\* ---- ThreadManager::acquireThread ---------------------------------------

\* std::lock_guard<std::mutex> threadLock(mMutex); WorkerThread* thread = nullptr
\* (a call that would construct a Worker beyond MaxWorkers is not made)
AcquireLock(t, site) ==
    /\ pc[t] = site
    /\ site = "idle" => inst[t] # NullPtr
    /\ mThreadPool # << >> \/ nWorkers < MaxWorkers
    /\ Lock(t)
    /\ thread' = [thread EXCEPT ![t] = NullPtr]
    /\ pc' = [pc EXCEPT ![t] = "acq_pool"]
    /\ UNCHANGED << mgrVars, poolVars, ctx, inst, held, hookRuns, nMisuse, eglVars, maxLent, taskVars >>

\* thread = new WorkerThread(name, Affinity::Odd) without the test of mThreadPool.empty()
AcquireNewAlways(t) ==
    /\ pc[t] = "acq_pool"
    /\ nWorkers < MaxWorkers
    /\ nWorkers' = nWorkers + 1
    /\ affinity' = [affinity EXCEPT ![nWorkers + 1] = NewAffinity]
    /\ thread' = [thread EXCEPT ![t] = nWorkers + 1]
    /\ pc' = [pc EXCEPT ![t] = "acq_set"]
    /\ UNCHANGED << mgrVars, mMutex, mThreadPool, isWorking, relOrder, ctx, inst, held, hookRuns, nMisuse, eglVars, taskVars >>
    /\ maxLent' = HighWater(LentCount')

\* if (mThreadPool.empty()) thread = new WorkerThread(name, Affinity::Odd)
AcquireNew(t) ==
    /\ pc[t] = "acq_pool"
    /\ mThreadPool = << >>
    /\ nWorkers' = nWorkers + 1
    /\ affinity' = [affinity EXCEPT ![nWorkers + 1] = NewAffinity]
    /\ thread' = [thread EXCEPT ![t] = nWorkers + 1]
    /\ pc' = [pc EXCEPT ![t] = "acq_set"]
    /\ UNCHANGED << mgrVars, mMutex, mThreadPool, isWorking, relOrder, ctx, inst, held, hookRuns, nMisuse, eglVars, taskVars >>
    /\ maxLent' = HighWater(LentCount')

\* top() and pop() in a lock scope of their own, which ends after the pop
AcquirePopThenUnlock(t) ==
    /\ pc[t] = "acq_pool"
    /\ mThreadPool # << >>
    /\ thread' = [thread EXCEPT ![t] = Top(mThreadPool)]
    /\ mThreadPool' = Pop(mThreadPool)
    /\ relOrder' = RemoveLast(relOrder, thread'[t])
    /\ Unlock(t)
    /\ pc' = [pc EXCEPT ![t] = "acq_set"]
    /\ UNCHANGED << mgrVars, nWorkers, affinity, isWorking, ctx, inst, held, hookRuns, nMisuse, eglVars, taskVars >>
    /\ maxLent' = HighWater(LentCount')

\* else { thread = mThreadPool.top(); mThreadPool.pop(); }
AcquirePop(t) ==
    /\ pc[t] = "acq_pool"
    /\ mThreadPool # << >>
    /\ thread' = [thread EXCEPT ![t] = Top(mThreadPool)]
    /\ mThreadPool' = Pop(mThreadPool)
    /\ relOrder' = RemoveLast(relOrder, thread'[t])
    /\ pc' = [pc EXCEPT ![t] = "acq_set"]
    /\ UNCHANGED << mgrVars, mMutex, nWorkers, affinity, isWorking, ctx, inst, held, hookRuns, nMisuse, eglVars, taskVars >>
    /\ maxLent' = HighWater(LentCount')

\* thread->setIsWorking(true) with the onAcquire argument left out
AcquireSetNoHook(t) ==
    /\ pc[t] = "acq_set"
    /\ SetIsWorking(t, thread[t], TRUE, FALSE)
    /\ pc' = [pc EXCEPT ![t] = "acq_ret"]
    /\ UNCHANGED << mgrVars, mMutex, mThreadPool, nWorkers, affinity, relOrder, ctx, thread, inst, held, nMisuse, eglVars, maxLent, taskVars >>

\* thread->setIsWorking(true, onAcquire)
AcquireSet(t) ==
    /\ pc[t] = "acq_set"
    /\ SetIsWorking(t, thread[t], TRUE, TRUE)
    /\ pc' = [pc EXCEPT ![t] = "acq_ret"]
    /\ UNCHANGED << mgrVars, mMutex, mThreadPool, nWorkers, affinity, relOrder, ctx, thread, inst, held, nMisuse, eglVars, maxLent, taskVars >>

\* return thread
AcquireReturn(t) ==
    /\ pc[t] = "acq_ret"
    /\ Unlock(t)
    /\ held' = [held EXCEPT ![t][thread[t]] = IF ctx[t] = "direct" THEN @ + 1 ELSE @]
    /\ hookRuns' = [hookRuns EXCEPT ![t] = 0]
    /\ thread' = [thread EXCEPT ![t] = IF ctx[t] = "direct" THEN NullPtr ELSE @]
    /\ pc' = [pc EXCEPT ![t] = IF ctx[t] = "direct" THEN "idle" ELSE "cur_new"]
    /\ UNCHANGED << mgrVars, poolVars, ctx, inst, nMisuse, eglVars, maxLent, taskVars >>

\* ---- ThreadManager::releaseThread ---------------------------------------

\* releaseThread(thread, onRelease) by a caller that holds `thread`
ReleaseLock(t, w, site) ==
    /\ pc[t] = site
    /\ site = "idle" => inst[t] # NullPtr /\ held[t][w] > 0
    /\ site = "dtor_rel" => thread[t] = w
    /\ Lock(t)
    /\ thread' = [thread EXCEPT ![t] = w]
    /\ pc' = [pc EXCEPT ![t] = "rel_set"]
    /\ UNCHANGED << mgrVars, poolVars, ctx, inst, held, hookRuns, nMisuse, eglVars, maxLent, taskVars >>

\* releaseThread(thread, onRelease) with a stale pointer: a constructed Worker
\* that is not lent out (released before and not acquired since)
ReleaseLockNotLent(t, w) ==
    /\ pc[t] = "idle"
    /\ inst[t] # NullPtr
    /\ w \in 1 .. nWorkers
    /\ ~LentOut(w)
    /\ nMisuse < MaxMisuse
    /\ Lock(t)
    /\ nMisuse' = nMisuse + 1
    /\ thread' = [thread EXCEPT ![t] = w]
    /\ pc' = [pc EXCEPT ![t] = "rel_set"]
    /\ UNCHANGED << mgrVars, poolVars, ctx, inst, held, hookRuns, eglVars, maxLent, taskVars >>

\* releaseThread with the setIsWorking(false) left out
ReleaseSetSkipped(t) ==
    /\ pc[t] = "rel_set"
    /\ pc' = [pc EXCEPT ![t] = "rel_queue"]
    /\ UNCHANGED << mgrVars, mMutex, poolVars, ctx, thread, inst, held, hookRuns, nMisuse, eglVars, maxLent, taskVars >>

\* thread->setIsWorking(false)
ReleaseSet(t) ==
    /\ pc[t] = "rel_set"
    /\ SetIsWorking(t, thread[t], FALSE, FALSE)
    /\ pc' = [pc EXCEPT ![t] = "rel_queue"]
    /\ UNCHANGED << mgrVars, mMutex, mThreadPool, nWorkers, affinity, relOrder, ctx, thread, inst, held, nMisuse, eglVars, maxLent, taskVars >>

\* thread->releaseQueue(onRelease)
ReleaseDrain(t) ==
    /\ pc[t] = "rel_queue"
    /\ ReleaseQueue(t, thread[t])
    /\ pc' = [pc EXCEPT ![t] = "rel_push"]
    /\ UNCHANGED << mgrVars, mMutex, poolVars, ctx, thread, inst, held, nMisuse, eglVars, maxLent, taskVars >>

\* releaseThread that returns without mThreadPool.push(thread)
ReleasePushDrops(t) ==
    /\ pc[t] = "rel_push"
    /\ Unlock(t)
    /\ held' = [held EXCEPT ![t][thread[t]] = IF ctx[t] = "direct" /\ @ > 0 THEN @ - 1 ELSE @]
    /\ hookRuns' = [hookRuns EXCEPT ![t] = 0]
    /\ pc' = [pc EXCEPT ![t] = "idle"]
    /\ ctx' = [ctx EXCEPT ![t] = "direct"]
    /\ thread' = [thread EXCEPT ![t] = NullPtr]
    /\ UNCHANGED << mgrVars, poolVars, inst, nMisuse, eglVars, maxLent, taskVars >>

\* mThreadPool.push(thread), and the method returns
ReleasePush(t) ==
    /\ pc[t] = "rel_push"
    /\ mThreadPool' = Push(mThreadPool, thread[t])
    /\ relOrder' = Append(relOrder, thread[t])
    /\ Unlock(t)
    /\ held' = [held EXCEPT ![t][thread[t]] = IF ctx[t] = "direct" /\ @ > 0 THEN @ - 1 ELSE @]
    /\ hookRuns' = [hookRuns EXCEPT ![t] = 0]
    /\ pc' = [pc EXCEPT ![t] = "idle"]
    /\ ctx' = [ctx EXCEPT ![t] = "direct"]
    /\ thread' = [thread EXCEPT ![t] = NullPtr]
    /\ UNCHANGED << mgrVars, nWorkers, affinity, isWorking, inst, nMisuse, eglVars, maxLent, taskVars >>

\* ---- EGLWorker, the shared handle (rcp<EGLWorker>) ----------------------

\* EGLWorker::Current() while an EGLWorker is live: one more reference to it
CurrentShare(t) ==
    /\ pc[t] = "idle"
    /\ curMutex = NoThread
    /\ egl.live
    /\ egl.refs < MaxRefs
    /\ egl' = [egl EXCEPT !.refs = @ + 1, !.shared = TRUE]
    /\ refsHeld' = [refsHeld EXCEPT ![t] = @ + 1]
    /\ UNCHANGED << mgrVars, mMutex, poolVars, pc, ctx, thread, inst, held, hookRuns, nMisuse, curMutex, maxLent, taskVars >>

\* Current() that constructs an EGLWorker whether or not one is live
CurrentBeginAlways(t) ==
    /\ pc[t] = "idle"
    /\ curMutex = NoThread
    /\ curMutex' = t
    /\ ctx' = [ctx EXCEPT ![t] = "cur"]
    /\ pc' = [pc EXCEPT ![t] = "egl_gi"]
    /\ UNCHANGED << mgrVars, mMutex, poolVars, thread, inst, held, hookRuns, nMisuse, egl, refsHeld, maxLent, taskVars >>

\* EGLWorker::Current() while none is live: construct one, which goes on to
\* ThreadManager::getInstance()->acquireThread(...)
CurrentBegin(t) ==
    /\ pc[t] = "idle"
    /\ curMutex = NoThread
    /\ ~egl.live
    /\ curMutex' = t
    /\ ctx' = [ctx EXCEPT ![t] = "cur"]
    /\ pc' = [pc EXCEPT ![t] = "egl_gi"]
    /\ UNCHANGED << mgrVars, mMutex, poolVars, thread, inst, held, hookRuns, nMisuse, egl, refsHeld, maxLent, taskVars >>

\* the new EGLWorker wraps the acquired Worker; Current() returns the first reference
CurrentNew(t) ==
    /\ pc[t] = "cur_new"
    /\ egl' = [live |-> TRUE, worker |-> thread[t], refs |-> 1, releases |-> 0, shared |-> FALSE]
    /\ refsHeld' = [refsHeld EXCEPT ![t] = @ + 1]
    /\ curMutex' = NoThread
    /\ thread' = [thread EXCEPT ![t] = NullPtr]
    /\ ctx' = [ctx EXCEPT ![t] = "direct"]
    /\ pc' = [pc EXCEPT ![t] = "idle"]
    /\ UNCHANGED << mgrVars, mMutex, poolVars, inst, held, hookRuns, nMisuse, maxLent, taskVars >>

\* a copy of a handle, kept or handed to thread u
Copy(t, u) ==
    /\ pc[t] = "idle"
    /\ refsHeld[t] > 0
    /\ egl.refs < MaxRefs
    /\ egl' = [egl EXCEPT !.refs = @ + 1]
    /\ refsHeld' = [refsHeld EXCEPT ![u] = @ + 1]
    /\ UNCHANGED << mgrVars, mMutex, poolVars, pc, ctx, thread, inst, held, hookRuns, nMisuse, curMutex, maxLent, taskVars >>

\* a drop that runs the destructor whatever the count
DropAlwaysReleases(t) ==
    /\ pc[t] = "idle"
    /\ refsHeld[t] > 0
    /\ refsHeld' = [refsHeld EXCEPT ![t] = @ - 1]
    /\ egl' = [egl EXCEPT !.live = (egl.refs > 1), !.refs = @ - 1, !.releases = @ + 1]
    /\ thread' = [thread EXCEPT ![t] = egl.worker]
    /\ ctx' = [ctx EXCEPT ![t] = "dtor"]
    /\ pc' = [pc EXCEPT ![t] = "egl_gi"]
    /\ UNCHANGED << mgrVars, mMutex, poolVars, inst, held, hookRuns, nMisuse, curMutex, maxLent, taskVars >>

\* release() / drop of a handle: the count goes down; at zero the EGLWorker is
\* gone and its destructor gives the Worker back through
\* ThreadManager::getInstance()->releaseThread(...)
Drop(t) ==
    /\ pc[t] = "idle"
    /\ refsHeld[t] > 0
    /\ refsHeld' = [refsHeld EXCEPT ![t] = @ - 1]
    /\ IF egl.refs = 1
         THEN /\ egl' = [egl EXCEPT !.live = FALSE, !.refs = 0, !.releases = @ + 1]
              /\ thread' = [thread EXCEPT ![t] = egl.worker]
              /\ ctx' = [ctx EXCEPT ![t] = "dtor"]
              /\ pc' = [pc EXCEPT ![t] = "egl_gi"]
         ELSE /\ egl' = [egl EXCEPT !.refs = @ - 1]
              /\ UNCHANGED << thread, ctx, pc >>
    /\ UNCHANGED << mgrVars, mMutex, poolVars, inst, held, hookRuns, nMisuse, curMutex, maxLent, taskVars >>

\* ---- next-state relations ----------------------------------------------

\* the statements inside the three methods, whoever called them
Inside(t) ==
    \/ GetInstanceCheck(t)
    \/ GetInstanceNew(t)
    \/ GetInstanceReturn(t)
    \/ AcquireNew(t)
    \/ AcquirePop(t)
    \/ AcquireSet(t)
    \/ AcquireReturn(t)
    \/ ReleaseSet(t)
    \/ ReleaseDrain(t)
    \/ ReleasePush(t)

\* threads that call the ThreadManager directly
Next ==
    \E t \in Threads :
        \/ GetInstanceLock(t, "idle")
        \/ AcquireLock(t, "idle")
        \/ \E w \in Workers : ReleaseLock(t, w, "idle")
        \/ \E w \in Workers : ReleaseLockNotLent(t, w)
        \/ Inside(t)

Spec == Init /\ [][Next]_vars

\* threads that use the ThreadManager through EGLWorker handles
NextEGL ==
    \E t \in Threads :
        \/ CurrentShare(t)
        \/ CurrentBegin(t)
        \/ CurrentNew(t)
        \/ \E u \in Threads : Copy(t, u)
        \/ Drop(t)
        \/ GetInstanceLock(t, "egl_gi")
        \/ AcquireLock(t, "cur_acq")
        \/ \E w \in Workers : ReleaseLock(t, w, "dtor_rel")
        \/ Inside(t)

SpecEGL == Init /\ [][NextEGL]_vars

\* the steps of thread t that are inside EGLWorker::Current() or ~EGLWorker()
Proceed(t) ==
    \/ GetInstanceLock(t, "egl_gi")
    \/ AcquireLock(t, "cur_acq")
    \/ \E w \in Workers : ReleaseLock(t, w, "dtor_rel")
    \/ Inside(t)
    \/ CurrentNew(t)

\* A thread inside a call keeps running, and a thread that waits at a
\* lock_guard gets the mutex at one of the times it is free.
SpecEGLFair == SpecEGL /\ \A t \in Threads : SF_vars(Proceed(t))

\* the references held by the threads of S
RECURSIVE RefsHeldBy(_)
RefsHeldBy(S) ==
    IF S = {} THEN 0
    ELSE LET t == CHOOSE x \in S : TRUE IN refsHeld[t] + RefsHeldBy(S \ {t})

\* ---- hooks that call back into the ThreadManager -------------------------

\* The onAcquire / onRelease callables are the caller's code. They run inside
\* setIsWorking / releaseQueue, on the calling thread, and may themselves call
\* the ThreadManager. Here the callback is a state of its own.
HookPcs    == {"acq_hook", "rel_hook"}
\* a callback's own call of getInstance / acquireThread / releaseThread, at
\* that method's lock_guard
NestedSite == {"hook_gi", "hook_acq", "hook_rel"}

\* thread->setIsWorking(true, onAcquire): the flag is set and onAcquire is entered
AcquireHookBegin(t) ==
    /\ pc[t] = "acq_set"
    /\ isWorking' = [isWorking EXCEPT ![thread[t]] = TRUE]
    /\ pc' = [pc EXCEPT ![t] = "acq_hook"]
    /\ UNCHANGED << mgrVars, mMutex, mThreadPool, nWorkers, affinity, relOrder, ctx, thread, inst, held, hookRuns, nMisuse, eglVars, maxLent, taskVars >>

\* onAcquire returns, and with it setIsWorking
AcquireHookEnd(t) ==
    /\ pc[t] = "acq_hook"
    /\ hookRuns' = [hookRuns EXCEPT ![t] = @ + 1]
    /\ pc' = [pc EXCEPT ![t] = "acq_ret"]
    /\ UNCHANGED << mgrVars, mMutex, poolVars, ctx, thread, inst, held, nMisuse, eglVars, maxLent, taskVars >>

\* thread->releaseQueue(onRelease): onRelease is entered
ReleaseHookBegin(t) ==
    /\ pc[t] = "rel_queue"
    /\ pc' = [pc EXCEPT ![t] = "rel_hook"]
    /\ UNCHANGED << mgrVars, mMutex, poolVars, ctx, thread, inst, held, hookRuns, nMisuse, eglVars, maxLent, taskVars >>

\* onRelease returns, and with it releaseQueue
ReleaseHookEnd(t) ==
    /\ pc[t] = "rel_hook"
    /\ hookRuns' = [hookRuns EXCEPT ![t] = @ + 1]
    /\ pc' = [pc EXCEPT ![t] = "rel_push"]
    /\ UNCHANGED << mgrVars, mMutex, poolVars, ctx, thread, inst, held, nMisuse, eglVars, maxLent, taskVars >>

\* The callback calls getInstance, acquireThread or releaseThread. The method
\* starts with a lock_guard on the std::mutex its own thread owns, which is
\* undefined behaviour. Outcome one: lock() waits for the owner to unlock.
HookCalls(t, site) ==
    /\ pc[t] \in HookPcs
    /\ site \in NestedSite
    /\ pc' = [pc EXCEPT ![t] = site]
    /\ UNCHANGED << mgrVars, mMutex, poolVars, ctx, thread, inst, held, hookRuns, nMisuse, eglVars, maxLent, taskVars >>

\* Outcome two: lock() throws std::system_error (resource_deadlock_would_occur).
\* The exception leaves the callback and the outer method, whose lock_guard
\* unlocks; after acquireThread the Worker was neither returned nor pooled.
HookCallFails(t) ==
    /\ pc[t] \in HookPcs
    /\ Unlock(t)
    /\ hookRuns' = [hookRuns EXCEPT ![t] = 0]
    /\ thread' = [thread EXCEPT ![t] = NullPtr]
    /\ pc' = [pc EXCEPT ![t] = "idle"]
    /\ UNCHANGED << mgrVars, poolVars, ctx, inst, held, nMisuse, eglVars, maxLent, taskVars >>

\* threads that call the ThreadManager directly and from inside their callbacks
NextHooks ==
    \E t \in Threads :
        \/ \E site \in {"idle", "hook_gi"} : GetInstanceLock(t, site)
        \/ \E site \in {"idle", "hook_acq"} : AcquireLock(t, site)
        \/ \E w \in Workers : \E site \in {"idle", "hook_rel"} : ReleaseLock(t, w, site)
        \/ GetInstanceCheck(t)
        \/ GetInstanceNew(t)
        \/ GetInstanceReturn(t)
        \/ AcquireNew(t)
        \/ AcquirePop(t)
        \/ AcquireHookBegin(t)
        \/ AcquireHookEnd(t)
        \/ AcquireReturn(t)
        \/ ReleaseSet(t)
        \/ ReleaseHookBegin(t)
        \/ ReleaseHookEnd(t)
        \/ ReleasePush(t)
        \/ \E site \in NestedSite : HookCalls(t, site)
        \/ HookCallFails(t)

SpecHooks == Init /\ [][NextHooks]_vars

\* ---- WorkerThread: the work queue and the loop of a Worker ---------------

\* Tasks are numbered in the order of their push: task k is the k-th pushed.
NextTask == Len(pushedTo) + 1

\* the tasks pushed to Worker w so far, oldest first
PushedSeq(w) == SelectSeq([k \in 1 .. Len(pushedTo) |-> k], LAMBDA k : pushedTo[k] = w)

\* the task, if any, that the loop of Worker w is executing
RunningSeq(w) == IF running[w] = {} THEN << >> ELSE << CHOOSE k \in running[w] : TRUE >>

Executed(k) == \E w \in Workers : \E i \in 1 .. Len(done[w]) : done[w][i] = k

\* worker->run(task) by a thread that has the pointer of a lent-out Worker:
\* push(task) appends to the tail of the queue, does not wait, and wakes the loop
Run(t, w) ==
    /\ pc[t] = "idle"
    /\ LentOut(w)
    /\ NextTask <= MaxTasks
    /\ workQueue' = [workQueue EXCEPT ![w] = Append(@, NextTask)]
    /\ pushedTo' = Append(pushedTo, w)
    /\ UNCHANGED << mgrVars, mMutex, poolVars, pc, ctx, thread, inst, held, hookRuns, nMisuse, eglVars, maxLent, running, done, failed >>

\* a loop that takes the newest task of the queue
LoopTakeNewest(w) ==
    /\ w \in 1 .. nWorkers
    /\ running[w] = {}
    /\ workQueue[w] # << >>
    /\ running' = [running EXCEPT ![w] = {workQueue[w][Len(workQueue[w])]}]
    /\ workQueue' = [workQueue EXCEPT ![w] = SubSeq(@, 1, Len(@) - 1)]
    /\ UNCHANGED << mgrVars, mMutex, poolVars, pc, ctx, thread, inst, held, hookRuns, nMisuse, eglVars, maxLent, done, pushedTo, failed >>

\* the loop of Worker w, between two tasks: it waits while the queue is empty
\* and takes the task at the head otherwise
LoopTake(w) ==
    /\ w \in 1 .. nWorkers
    /\ running[w] = {}
    /\ workQueue[w] # << >>
    /\ running' = [running EXCEPT ![w] = {Head(workQueue[w])}]
    /\ workQueue' = [workQueue EXCEPT ![w] = Tail(@)]
    /\ UNCHANGED << mgrVars, mMutex, poolVars, pc, ctx, thread, inst, held, hookRuns, nMisuse, eglVars, maxLent, done, pushedTo, failed >>

\* a loop that a failing task ends: the task is never cleared
LoopFinishDiesOnFailure(w, ok) ==
    /\ \E k \in running[w] :
          /\ k \notin failed
          /\ done' = [done EXCEPT ![w] = IF ok THEN Append(@, k) ELSE @]
          /\ failed' = IF ok THEN failed ELSE failed \cup {k}
          /\ running' = [running EXCEPT ![w] = IF ok THEN @ \ {k} ELSE @]
    /\ UNCHANGED << mgrVars, mMutex, poolVars, pc, ctx, thread, inst, held, hookRuns, nMisuse, eglVars, maxLent, workQueue, pushedTo >>

\* the task returns (ok) or fails; a failure is caught at the loop boundary,
\* and either way the loop goes on to the next task
LoopFinish(w, ok) ==
    /\ \E k \in running[w] :
          /\ done' = [done EXCEPT ![w] = Append(@, k)]
          /\ failed' = IF ok THEN failed ELSE failed \cup {k}
          /\ running' = [running EXCEPT ![w] = @ \ {k}]
    /\ UNCHANGED << mgrVars, mMutex, poolVars, pc, ctx, thread, inst, held, hookRuns, nMisuse, eglVars, maxLent, workQueue, pushedTo >>

\* The ThreadManager is constructed and every thread that found a Worker to
\* construct has acquired one and holds it: thread t holds Worker t.
LentWorkers == {w \in Workers : w \in Threads}

InitLent ==
    /\ mInstance = 1
    /\ nInstances = 1
    /\ mMutex = NoThread
    /\ mThreadPool = << >>
    /\ nWorkers = Cardinality(LentWorkers)
    /\ affinity = [w \in Workers |-> IF w \in LentWorkers THEN NewAffinity ELSE "None"]
    /\ isWorking = [w \in Workers |-> w \in LentWorkers]
    /\ pc = [t \in Threads |-> "idle"]
    /\ ctx = [t \in Threads |-> "direct"]
    /\ thread = [t \in Threads |-> NullPtr]
    /\ inst = [t \in Threads |-> 1]
    /\ held = [t \in Threads |-> [w \in Workers |-> IF w = t THEN 1 ELSE 0]]
    /\ hookRuns = [t \in Threads |-> 0]
    /\ nMisuse = 0
    /\ curMutex = NoThread
    /\ egl = [live |-> FALSE, worker |-> NullPtr, refs |-> 0, releases |-> 0, shared |-> FALSE]
    /\ refsHeld = [t \in Threads |-> 0]
    /\ relOrder = << >>
    /\ maxLent = Cardinality(LentWorkers)
    /\ workQueue = [w \in Workers |-> << >>]
    /\ running = [w \in Workers |-> {}]
    /\ done = [w \in Workers |-> << >>]
    /\ pushedTo = << >>
    /\ failed = {}

\* threads that submit tasks to the lent-out Workers, and the loops of the Workers
NextWorker ==
    \/ \E t \in Threads : \E w \in Workers : Run(t, w)
    \/ \E w \in Workers : LoopTake(w)
    \/ \E w \in Workers : \E ok \in BOOLEAN : LoopFinish(w, ok)

\* Every Worker has an OS thread of its own that runs its loop, and a task
\* that is executing returns or fails: the loop steps are weakly fair.
SpecWorker ==
    /\ InitLent
    /\ [][NextWorker]_vars
    /\ \A w \in Workers :
          /\ WF_vars(LoopTake(w))
          /\ WF_vars(\E ok \in BOOLEAN : LoopFinish(w, ok))

\* the ThreadManager methods reach the state the Workers' loops start from
InitLentReached ==
    /\ mInstance = 1 /\ nInstances = 1 /\ mMutex = NoThread /\ mThreadPool = << >>
    /\ nWorkers = Cardinality(LentWorkers) /\ maxLent = nWorkers /\ nMisuse = 0
    /\ \A t \in Threads : pc[t] = "idle" /\ inst[t] = 1
    /\ held = [t \in Threads |-> [w \in Workers |-> IF w = t THEN 1 ELSE 0]]
    /\ isWorking = [w \in Workers |-> w \in LentWorkers]

\* ---- the claims ----------------------------------------------------------

\* C1: acquireThread never returns a Worker that is lent out, that is, one a
\* caller got from an earlier acquireThread and still holds.
C1_NeverLentTwice ==
    \A t \in Threads :
        pc[t] = "acq_ret" => \A u \in Threads : held[u][thread[t]] = 0

\* C2: a releaseThread of a Worker that is not lent out does not complete
\* normally and does not push the Worker onto the idle pool.
C2_ReleaseNotLentIsFatal ==
    [][\A t \in Threads :
          (pc[t] = "rel_push" /\ ~LentOut(thread[t]))
              => (pc'[t] # "idle" /\ mThreadPool' = mThreadPool)]_vars

\* C3: whenever the idle pool is not empty, acquireThread takes the most
\* recently released Worker that is still in the pool, and constructs none.
C3_LifoReuse ==
    [][\A t \in Threads :
          (pc[t] = "acq_pool" /\ pc'[t] = "acq_set" /\ mThreadPool # << >>)
              => /\ relOrder # << >>
                 /\ thread'[t] = relOrder[Len(relOrder)]
                 /\ nWorkers' = nWorkers]_vars

\* a Worker was taken from a pool that held at least two
C3_Reused ==
    \E t \in Threads :
        /\ pc[t] = "acq_set"
        /\ mThreadPool # << >>
        /\ thread[t] # mThreadPool[1]

\* C4: consecutively constructed Workers have different affinity tags.
C4_AffinityAlternates ==
    \A k \in 1 .. (nWorkers - 1) : affinity[k] # affinity[k + 1]

\* C5: at most one ThreadManager is ever constructed, and every getInstance
\* call returns that one instance.
C5_OneInstance ==
    /\ nInstances <= 1
    /\ \A t \in Threads :
          /\ pc[t] = "gi_ret" => (mInstance # NullPtr /\ nInstances = 1)
          /\ inst[t] # NullPtr => (inst[t] = mInstance /\ nInstances = 1)

\* every thread has called getInstance and got the instance
C5_AllReturned ==
    \A t \in Threads : inst[t] # NullPtr

\* C6: as long as callers release only Workers they hold, every constructed
\* Worker is in the idle pool or lent out, never both, and is in the pool at
\* most once.
C6_PoolXorLent ==
    nMisuse = 0 =>
        \A w \in 1 .. nWorkers :
            /\ InPool(w) # LentOut(w)
            /\ Cardinality({i \in 1 .. Len(mThreadPool) : mThreadPool[i] = w}) <= 1

\* one Worker idle in the pool while another is lent out
C6_OneIdleOneLent ==
    /\ nMisuse = 0
    /\ \E w1, w2 \in 1 .. nWorkers :
          /\ InPool(w1)
          /\ \E t \in Threads : held[t][w2] > 0

\* C7: releaseThread pushes a Worker only after its is-working flag is false
\* and releaseQueue(onRelease) has run, and it owns the mutex from the flip to
\* the push.
C7_PushedNotWorking ==
    /\ [](\A t \in Threads : pc[t] \in {"rel_set", "rel_queue", "rel_push"} => mMutex = t)
    /\ [][\A t \in Threads :
             (pc[t] = "rel_push" /\ pc'[t] = "idle")
                 => /\ ~isWorking[thread[t]]
                    /\ hookRuns[t] = 1
                    /\ mThreadPool' = Append(mThreadPool, thread[t])
                    /\ ~isWorking'[thread[t]]]_vars

\* a released Worker is in the pool, not working
C7_Released ==
    /\ \A t \in Threads : pc[t] = "idle"
    /\ \E w \in 1 .. nWorkers : InPool(w) /\ ~isWorking[w]

\* C8: acquireThread runs on_acquire exactly once, in the step that flips the
\* Worker to working and before it returns; releaseThread runs on_release
\* exactly once before the Worker enters the pool.
C8_HooksRunOnce ==
    /\ [](\A t \in Threads :
             pc[t] \in {"acq_pool", "acq_set", "rel_set", "rel_queue"} => hookRuns[t] = 0)
    /\ [][\A t \in Threads :
             /\ (pc[t] = "acq_set" /\ pc'[t] = "acq_ret")
                    => (hookRuns'[t] = 1 /\ isWorking'[thread[t]])
             /\ (pc[t] = "acq_ret" /\ pc'[t] # "acq_ret") => hookRuns[t] = 1
             /\ (pc[t] = "rel_push" /\ pc'[t] # "rel_push")
                    => (hookRuns[t] = 1 /\ Len(mThreadPool') = Len(mThreadPool) + 1)]_vars

\* acquireThread is about to return a reused Worker, its hook run
C8_ReusedHookRun ==
    \E t \in Threads :
        /\ pc[t] = "acq_ret"
        /\ hookRuns[t] = 1
        /\ mThreadPool # << >>

\* C9: the destructor of an EGLWorker, which releases its Worker, runs exactly
\* in the drop that takes the reference count from 1 to 0, on the Worker the
\* handle wraps, and at most once per EGLWorker.
C9_ReleasedOnLastDrop ==
    /\ [](/\ egl.releases <= 1
          /\ egl.live => (egl.releases = 0 /\ egl.refs >= 1)
          /\ egl.releases = 1 => egl.refs = 0
          /\ \A t, u \in Threads :
                (ctx[t] = "dtor" /\ ctx[u] = "dtor" /\ thread[t] = thread[u]) => t = u)
    /\ [][/\ (\E t \in Threads : ctx[t] # "dtor" /\ ctx'[t] = "dtor")
                 <=> (egl.refs = 1 /\ egl'.refs = 0)
          /\ \A t \in Threads :
                (ctx[t] # "dtor" /\ ctx'[t] = "dtor") => thread'[t] = egl.worker
          /\ \A t \in Threads :
                (ctx[t] = "dtor" /\ pc[t] = "rel_push" /\ pc'[t] = "idle")
                    => mThreadPool' = Append(mThreadPool, thread[t])]_vars

\* a handle that was shared is gone and its Worker is being pushed back
C9_LastDropReleasing ==
    /\ ~egl.live
    /\ egl.shared
    /\ egl.releases = 1
    /\ \E t \in Threads : ctx[t] = "dtor" /\ pc[t] = "rel_push"

\* C10: while an EGLWorker is live, Current() adds one reference to it and
\* acquires nothing; only while none is live does it acquire a Worker, and the
\* handle it then makes has count 1.
C10_CurrentSharesLive ==
    /\ [](\A t \in Threads : ctx[t] = "cur" => ~egl.live)
    /\ [][/\ (egl.live /\ egl'.refs > egl.refs)
                 => /\ egl'.live
                    /\ egl'.worker = egl.worker
                    /\ egl'.refs = egl.refs + 1
                    /\ UNCHANGED << mThreadPool, nWorkers, mMutex, pc, ctx >>
          /\ \A t \in Threads :
                (ctx[t] # "cur" /\ ctx'[t] = "cur") => ~egl.live
          /\ \A t \in Threads :
                (pc[t] = "cur_new" /\ pc'[t] = "idle")
                    => /\ ~egl.live
                       /\ egl'.live
                       /\ egl'.refs = 1
                       /\ egl'.worker = thread[t]
                       /\ isWorking[thread[t]]]_vars

\* the second Current() in succession: the same EGLWorker, count 2
C10_SecondCurrent ==
    /\ egl.live
    /\ egl.shared
    /\ egl.refs = 2
    /\ \E t \in Threads : refsHeld[t] = 2

\* the pool without its i-th entry
WithoutAt(s, i) == SubSeq(s, 1, i - 1) \o SubSeq(s, i + 1, Len(s))

\* C13: acquireThread always hands back a constructed Worker and has no error
\* path; it constructs a new Worker exactly when the pool is empty at the call,
\* and otherwise takes exactly one Worker out of the pool and leaves every other
\* pooled Worker, and their order, as they were.
C13_AcquireFrame ==
    /\ [](\A t \in Threads : pc[t] \in {"acq_set", "acq_ret"} => thread[t] \in 1 .. nWorkers)
    /\ [][\A t \in Threads : (pc[t] = "acq_pool" /\ pc'[t] # "acq_pool") =>
            /\ pc'[t] = "acq_set"
            /\ (nWorkers' = nWorkers + 1) <=> (mThreadPool = << >>)
            /\ (nWorkers' = nWorkers) <=> (mThreadPool # << >>)
            /\ mThreadPool = << >> => (mThreadPool' = << >> /\ thread'[t] = nWorkers')
            /\ mThreadPool # << >> =>
                   \E i \in 1 .. Len(mThreadPool) :
                       /\ thread'[t] = mThreadPool[i]
                       /\ mThreadPool' = WithoutAt(mThreadPool, i)]_vars

\* a Worker was taken out of a pool of two, and the other one is still pooled
C13_TookOneOfTwo ==
    /\ nMisuse = 0
    /\ Len(mThreadPool) = 1
    /\ nWorkers = 2
    /\ \E t \in Threads : pc[t] = "acq_ret" /\ ~InPool(thread[t])

\* C17: getInstance is double-checked: when the instance already exists the
\* call returns after an unlocked check and does not acquire the mutex, so it
\* is not held up by an acquireThread or releaseThread that owns the mutex.
C17_NoLockWhenInstanceExists ==
    [][\A t \in Threads :
          (pc[t] \in {"idle", "egl_gi"} /\ pc'[t] = "gi_check" /\ mInstance # NullPtr)
              => mMutex' = mMutex]_vars

\* C18: acquireThread and releaseThread never destroy a Worker; while callers
\* release only Workers they hold, the Workers constructed so far are the
\* pooled ones plus the lent-out ones, and their number is the most Workers
\* that were lent out at one time so far.
C18_ConstructedIsHighWater ==
    /\ [](nMisuse = 0 => (nWorkers = Len(mThreadPool) + LentCount /\ nWorkers = maxLent))
    /\ [][/\ nWorkers' >= nWorkers
          /\ \A w \in 1 .. nWorkers : affinity'[w] = affinity[w]]_vars

\* two Workers were lent out at one time and both are back in the pool
C18_AllBackInPool ==
    /\ nMisuse = 0
    /\ maxLent = 2
    /\ LentCount = 0
    /\ Len(mThreadPool) = 2

\* C14 (as stated): the pool lock is not held while an on_acquire or on_release
\* hook runs or while releaseQueue runs.
C14_HooksOutsideLock ==
    \A t \in Threads : pc[t] \in HookPcs => mMutex # t

\* C14 (amended): the pool lock is held from the entry of acquireThread or
\* releaseThread to its return, so also while the on_acquire or on_release hook
\* and releaseQueue run, and no other thread enters or advances in acquire or
\* release for the duration of a hook; the lock is free whenever no thread is
\* inside a ThreadManager method, as while lent-out Workers run their loops.
C14_HooksUnderLock ==
    /\ [](\A t \in Threads : pc[t] # "idle" => mMutex = t)
    /\ []((\A t \in Threads : pc[t] = "idle") => mMutex = NoThread)
    /\ [][\A t, u \in Threads : (pc[t] \in HookPcs /\ u # t) => pc'[u] = pc[u]]_vars

\* a release hook runs while another thread has a Worker it could release
C14_ReleaseWaitsForHook ==
    \E t, u \in Threads :
        /\ t # u
        /\ pc[t] = "rel_hook"
        /\ pc[u] = "idle"
        /\ \E w \in Workers : held[u][w] > 0

\* C19: getInstance, acquireThread and releaseThread lock one non-recursive
\* mutex and the hooks run while it is held; a hook that calls one of the three
\* waits for a mutex its own thread owns and never gets past that lock, and
\* from then on no thread enters or advances in any of the three methods.
C19_HookReentryDeadlocks ==
    /\ [](\A t \in Threads : pc[t] \in HookPcs \cup NestedSite => mMutex = t)
    /\ [][\A t \in Threads : pc[t] \in NestedSite => pc'[t] = pc[t]]_vars
    /\ [][(\E t \in Threads : pc[t] \in NestedSite) => (pc' = pc /\ mMutex' = mMutex)]_vars

\* a hook is stuck in its own call while another thread is about to call
C19_SelfDeadlock ==
    \E t, u \in Threads :
        /\ t # u
        /\ pc[t] \in NestedSite
        /\ mMutex = t
        /\ pc[u] = "idle"
        /\ inst[u] # NullPtr

\* C11: the tasks submitted to one Worker, by whichever threads, are executed
\* by that Worker's loop in the order of their submission: none is skipped,
\* reordered or executed by another Worker, and the loop executes one task at
\* a time.
C11_FifoOnOneWorker ==
    /\ \A w \in Workers : Cardinality(running[w]) <= 1
    /\ \A w \in Workers : done[w] \o RunningSeq(w) \o workQueue[w] = PushedSeq(w)

\* two tasks of one Worker were executed while another Worker executed a third
C11_TwoQueuesRan ==
    \E w1, w2 \in Workers :
        /\ w1 # w2
        /\ Len(done[w1]) >= 2
        /\ Len(done[w2]) >= 1

\* C12: a task that fails leaves the loop running and the queue as it was:
\* the failing task is over, the tasks behind it are still queued in their
\* order, and every task submitted is eventually executed, by the Worker it was
\* submitted to.
C12_FailureDoesNotStopLoop ==
    /\ [][failed' # failed =>
            \E w \in Workers :
                /\ running'[w] = {}
                /\ done'[w] = done[w] \o RunningSeq(w)
                /\ workQueue' = workQueue]_vars
    /\ [](\A w \in Workers : \A i \in 1 .. Len(done[w]) : pushedTo[done[w][i]] = w)
    /\ \A k \in 1 .. MaxTasks : (Len(pushedTo) >= k) ~> Executed(k)

\* a task was executed without failing after a task of the same Worker failed
C12_RanAfterFailure ==
    \E w \in Workers : \E i, j \in 1 .. Len(done[w]) :
        /\ i < j
        /\ done[w][i] \in failed
        /\ done[w][j] \notin failed

====
